---- MODULE Spec2Model ----
(***************************************************************************)
(* A model of the retrieval and query-classification core of the CDP       *)
(* support agent: QueryEngine (load_index, search, query) and              *)
(* CDPComparator (compare_cdps) of app/query_engine.py, the chat endpoint   *)
(* of app/app.py and ResponseGenerator of app/response_generator.py, over  *)
(* the index artifacts that scripts/indexer.py writes.                     *)
(*                                                                         *)
(* Text.  A string is a sequence of tokens.  A token is a maximal run of   *)
(* word characters (a word), one whitespace character, or one punctuation  *)
(* character.  str.lower() is the table Lower; a substring test against a  *)
(* word is the table ProperSubstrings.                                     *)
(*                                                                         *)
(* Scores.  A similarity is an integer number of tenths: 1 is 0.1.         *)
(***************************************************************************)
EXTENDS Integers, Sequences, FiniteSets, TLC

\* ------------------------------------------------------------------ bounds

\* The longest chunk list (and matrix) of an index.
MaxChunks == 3
\* The most words after the opening phrase of a text.
MaxWords == 2
\* The largest top_k a direct call of search passes.
MaxTopK == 2

\* ------------------------------------------------------ program constants

\* score > 0.1, in tenths
ScoreFloor == 1
\* query: self.search(query, top_k=3, ...)
QueryTopK == 3
\* compare_cdps: self.query_engine.search(search_query, top_k=2, ...)
CompareTopK == 2
\* compare_cdps: len(mentioned_cdps) >= 2
MinCdps == 2

None == "None"
\* None where the code otherwise returns a list.
NoList == <<None>>

\* ------------------------------------------------------------------- text

SP == " "
Whitespace == {SP}
Punctuation == {"'"}

\* str.lower() on a token: the tokens that have an upper-case letter.
Upper == [How |-> "how", I |-> "i", Segments |-> "segments",
          Lytics |-> "lytics", Compare |-> "compare"]

Lower(tok) == IF tok \in DOMAIN Upper THEN Upper[tok] ELSE tok

\* str.lower() on a text, token by token.
LowerText(text) == <<>> \o [i \in 1..Len(text) |-> Lower(text[i])]

\* <<needle, word>>: needle occurs in word, and is not the whole of it.
ProperSubstrings == {<<"segment", "segments">>}

\* `needle in word` for a needle with no whitespace or punctuation in it.
InWord(needle, word) == needle = word \/ <<needle, word>> \in ProperSubstrings

\* `needle in text` (re.search(needle, text)) for such a needle.
InText(needle, text) == \E i \in 1..Len(text) : InWord(needle, text[i])

\* The index of the first token at or after i that is not whitespace.
RECURSIVE SkipSpace(_, _)
SkipSpace(text, i) ==
    IF i <= Len(text) /\ text[i] \in Whitespace THEN SkipSpace(text, i + 1) ELSE i

\* A pattern is a sequence of elements: WS is \s+ , L(words) is one of the
\* words of an alternation (or one literal character).
WS == [re |-> "s+", of |-> Whitespace]

L(words) == [re |-> "lit", of |-> words]

\* The pattern matches text from token i on.
RECURSIVE MatchAt(_, _, _)
MatchAt(pat, text, i) ==
    IF pat = <<>> THEN TRUE
    ELSE IF pat[1].re = "s+"
        THEN /\ i <= Len(text)
             /\ text[i] \in Whitespace
             /\ MatchAt(Tail(pat), text, SkipSpace(text, i))
        ELSE /\ i <= Len(text)
             /\ text[i] \in pat[1].of
             /\ MatchAt(Tail(pat), text, i + 1)

\* re.search of a pattern that starts with ^ .
MatchStart(pat, text) == MatchAt(pat, text, 1)

\* re.search of a pattern with no anchor, its words taken whole.
MatchAnywhere(pat, text) == \E i \in 1..Len(text) : MatchAt(pat, text, i)

\* ------------------------------------------------------------- classifier

\* QueryEngine.is_how_to_question: how_to_patterns
how_to_patterns == <<
    <<L({"how"}), WS, L({"to"}), WS>>,
    <<L({"how"}), WS, L({"do", "can", "would", "should"}), WS, L({"i"}), WS>>,
    <<L({"how"}), WS, L({"do", "can", "would", "should"}), WS, L({"you"}), WS>>,
    <<L({"what"}), L({"'"}), L({"s"}), WS, L({"the"}), WS, L({"best"}), WS,
      L({"way"}), WS, L({"to"}), WS>>,
    <<L({"what"}), WS, L({"is"}), WS, L({"the"}), WS, L({"process"}), WS,
      L({"for"}), WS>>,
    <<L({"how"}), WS, L({"do"}), WS, L({"i"}), WS, L({"set"}), WS, L({"up"}), WS>>,
    <<L({"how"}), WS, L({"do"}), WS, L({"i"}), WS, L({"create"}), WS>> >>

\* is_how_to_question with the patterns' ^ dropped
is_how_to_unanchored(query) ==
    \E p \in 1..Len(how_to_patterns) :
        MatchAnywhere(how_to_patterns[p], LowerText(query))

\* QueryEngine.is_how_to_question
is_how_to_question(query) ==
    \E p \in 1..Len(how_to_patterns) :
        MatchStart(how_to_patterns[p], LowerText(query))

\* The product identifiers, in the order both scans use.
cdp_names == <<"segment", "mparticle", "lytics", "zeotap">>

\* The first of cdp_names, from position i on, that occurs in text.
RECURSIVE FirstCdp(_, _)
FirstCdp(text, i) ==
    IF i > Len(cdp_names) THEN None
    ELSE IF InText(cdp_names[i], text) THEN cdp_names[i]
    ELSE FirstCdp(text, i + 1)

\* extract_cdp_name scanning query, not query_lower
extract_cdp_name_cased(query) == FirstCdp(query, 1)

\* QueryEngine.extract_cdp_name
extract_cdp_name(query) == FirstCdp(LowerText(query), 1)

\* CDPComparator.is_comparison_question: comparison_patterns.  A one-word
\* pattern is a substring test; `how does .+ compare to` needs at least one
\* character between its two halves.
DifferenceBetween == <<L({"difference"}), L({SP}), L({"between"})>>

HowDoes == <<L({"how"}), L({SP}), L({"does"}), L({SP})>>

CompareTo == <<L({SP}), L({"compare"}), L({SP}), L({"to"})>>

HowDoesCompareTo(text) ==
    \E i \in 1..Len(text) :
        /\ MatchAt(HowDoes, text, i)
        /\ \E j \in (i + Len(HowDoes) + 1)..Len(text) : MatchAt(CompareTo, text, j)

\* re.search of each of comparison_patterns in query_lower
MatchesComparison(query_lower) ==
    \/ InText("compare", query_lower)
    \/ MatchAnywhere(DifferenceBetween, query_lower)
    \/ HowDoesCompareTo(query_lower)
    \/ InText("versus", query_lower)
    \/ InText("vs", query_lower)

\* CDPComparator.is_comparison_question
is_comparison_question(query) == MatchesComparison(LowerText(query))

\* The mentioned products, scanning cdp_names from position i.
RECURSIVE MentionedCdps(_, _)
MentionedCdps(text, i) ==
    IF i > Len(cdp_names) THEN <<>>
    ELSE (IF InText(cdp_names[i], text) THEN <<cdp_names[i]>> ELSE <<>>)
         \o MentionedCdps(text, i + 1)

\* The products of cdp_names that occur in text, in the order of their first
\* occurrence, from token i on.
RECURSIVE AppearanceFrom(_, _, _)
AppearanceFrom(text, i, seen) ==
    IF i > Len(text) THEN seen
    ELSE AppearanceFrom(text, i + 1,
             seen \o SelectSeq(cdp_names,
                        LAMBDA cdp : /\ InWord(cdp, text[i])
                                     /\ \A k \in 1..Len(seen) : seen[k] # cdp))

AppearanceOrder(query) == AppearanceFrom(LowerText(query), 1, <<>>)

\* extract_cdps_to_compare collecting the products as the text names them
extract_cdps_as_named(query) ==
    LET mentioned_cdps == AppearanceOrder(query) IN
    IF Len(mentioned_cdps) >= MinCdps THEN mentioned_cdps ELSE NoList

\* extract_cdps_to_compare content with one product
extract_cdps_from_one(query) ==
    LET mentioned_cdps == MentionedCdps(LowerText(query), 1) IN
    IF Len(mentioned_cdps) >= 1 THEN mentioned_cdps ELSE NoList

\* CDPComparator.extract_cdps_to_compare
extract_cdps_to_compare(query) ==
    LET mentioned_cdps == MentionedCdps(LowerText(query), 1) IN
    IF Len(mentioned_cdps) >= MinCdps THEN mentioned_cdps ELSE NoList

\* CDPComparator.extract_feature_to_compare: feature_patterns
feature_patterns == <<
    [pattern |-> <<L({"audience"}), L({SP}), L({"creation", "building", "segmentation"})>>,
     feature |-> "audience creation"],
    [pattern |-> <<L({"data"}), L({SP}), L({"integration", "ingestion"})>>,
     feature |-> "data integration"],
    [pattern |-> <<L({"user"}), L({SP}), L({"profiles", "identification"})>>,
     feature |-> "user profiles"],
    [pattern |-> <<L({"source", "destination"}), L({SP}), L({"connection", "integration"})>>,
     feature |-> "connections"],
    [pattern |-> <<L({"event"}), L({SP}), L({"tracking", "collection"})>>,
     feature |-> "event tracking"],
    [pattern |-> <<L({"privacy"}), L({SP}), L({"compliance", "management"})>>,
     feature |-> "privacy"],
    [pattern |-> <<L({"identity"}), L({SP}), L({"resolution", "matching"})>>,
     feature |-> "identity resolution"] >>

RECURSIVE FirstFeature(_, _)
FirstFeature(text, i) ==
    IF i > Len(feature_patterns) THEN None
    ELSE IF MatchAnywhere(feature_patterns[i].pattern, text)
        THEN feature_patterns[i].feature
    ELSE FirstFeature(text, i + 1)

\* CDPComparator.extract_feature_to_compare
extract_feature_to_compare(query) == FirstFeature(LowerText(query), 1)

\* The tokens of a feature label, for the f-string of compare_cdps.
FeatureTokens(feature) ==
    CASE feature = "audience creation" -> <<"audience", SP, "creation">>
      [] feature = "data integration" -> <<"data", SP, "integration">>
      [] feature = "user profiles" -> <<"user", SP, "profiles">>
      [] feature = "event tracking" -> <<"event", SP, "tracking">>
      [] feature = "identity resolution" -> <<"identity", SP, "resolution">>
      [] OTHER -> <<feature>>

\* -------------------------------------------------------------- retriever

\* QueryEngine.preprocess_query: re.sub(r'[^\w\s]', ' ', query)
PunctuationToSpace(text) ==
    [i \in 1..Len(text) |-> IF text[i] \in Punctuation THEN SP ELSE text[i]]

\* re.sub(r'\s+', ' ', query): every run of whitespace becomes one space.
RECURSIVE CollapseSpace(_)
CollapseSpace(text) ==
    IF text = <<>> THEN <<>>
    ELSE IF text[1] \in Whitespace
        THEN <<SP>> \o CollapseSpace(SubSeq(text, SkipSpace(text, 1), Len(text)))
        ELSE <<text[1]>> \o CollapseSpace(Tail(text))

\* str.strip()
RECURSIVE Strip(_)
Strip(text) ==
    IF text = <<>> THEN <<>>
    ELSE IF text[1] \in Whitespace THEN Strip(Tail(text))
    ELSE IF text[Len(text)] \in Whitespace THEN Strip(SubSeq(text, 1, Len(text) - 1))
    ELSE text

\* QueryEngine.preprocess_query
preprocess_query(query) == Strip(CollapseSpace(PunctuationToSpace(query)))

\* The columns of the matrix: the vocabulary the vectorizer was fitted with.
vocabulary == <<"audience", "do">>

\* The words of one character: TfidfVectorizer's token pattern wants two.
OneCharWords == {"i", "s"}

\* TfidfVectorizer's analyzer: lower-case, then the words of two or more
\* characters.
Analyze(text) ==
    SelectSeq(LowerText(text),
              LAMBDA tok : tok \notin Whitespace \union Punctuation \union OneCharWords)

Count(term, toks) == Cardinality({i \in 1..Len(toks) : toks[i] = term})

\* self.vectorizer.transform([processed_query]): one weight per column, the
\* number of times the column's term occurs in the query.
transform(text) ==
    LET toks == Analyze(text) IN
    [c \in 1..Len(vocabulary) |-> Count(vocabulary[c], toks)]

RECURSIVE DotFrom(_, _, _)
DotFrom(row, vec, c) ==
    IF c > Len(row) THEN 0 ELSE row[c] * vec[c] + DotFrom(row, vec, c + 1)

\* np.dot of one matrix row and the query vector
Dot(row, vec) == DotFrom(row, vec, 1)

\* An insertion that leaves the list in the order it is given
InsertAtEnd(sorted, x) == Append(sorted, x)

\* An insertion that puts x ahead of the elements of its own score
InsertDescAheadOfTies(sorted, x) ==
    LET ahead == Cardinality({k \in 1..Len(sorted) : sorted[k].score > x.score}) IN
    SubSeq(sorted, 1, ahead) \o <<x>> \o SubSeq(sorted, ahead + 1, Len(sorted))

\* sorted(..., key=lambda x: x[1], reverse=True): a stable sort, so x goes
\* after every element whose score is at least its own.
InsertDesc(sorted, x) ==
    LET ahead == Cardinality({k \in 1..Len(sorted) : sorted[k].score >= x.score}) IN
    SubSeq(sorted, 1, ahead) \o <<x>> \o SubSeq(sorted, ahead + 1, Len(sorted))

RECURSIVE SortDesc(_)
SortDesc(pairs) ==
    IF pairs = <<>> THEN <<>>
    ELSE InsertDesc(SortDesc(SubSeq(pairs, 1, Len(pairs) - 1)), pairs[Len(pairs)])

\* seq[:n] for n >= 0
Take(seq, n) == SubSeq(seq, 1, IF n < Len(seq) THEN n ELSE Len(seq))

\* range(n), as the 1-based positions 1..n in ascending order
Range(n) == [i \in 1..n |-> i]

\* ------------------------------------------------------------------ state

VARIABLES
    index_dir,      \* the index directory: the files in it and what they hold
    vectorizer,     \* QueryEngine.vectorizer
    chunk_vectors,  \* QueryEngine.chunk_vectors: one row of weights per entry
    chunks,         \* QueryEngine.chunks
    pc,             \* "start", "ready", "called", "returned" or "fatal"
    call,           \* the call in hand, with its arguments
    result,         \* what it returned, or the exception it raised
    searches        \* the calls of search it made, in order

vars == <<index_dir, vectorizer, chunk_vectors, chunks, pc, call, result, searches>>

engine == <<vectorizer, chunk_vectors, chunks>>

\* A filter that lets every chunk through
SourceIsAny(chunk, cdp_filter) == TRUE

\* search: chunk['source'].lower() == cdp_filter.lower()
SourceIs(chunk, cdp_filter) == Lower(chunk.source) = Lower(cdp_filter)

\* if score >= 0.1
AtOrAboveFloor(score) == score >= ScoreFloor

\* search: if score > 0.1
AboveFloor(score) == score > ScoreFloor

\* QueryEngine.search.  idx, the position of the chunk in self.chunks, is
\* kept beside the copy of the chunk.
search(query, top_k, cdp_filter) ==
    LET processed_query == preprocess_query(query)
        query_vector == transform(processed_query)
        similarities == [i \in 1..Len(chunk_vectors) |-> Dot(chunk_vectors[i], query_vector)]
        cdp_indices == SelectSeq(Range(Len(chunks)), LAMBDA i : SourceIs(chunks[i], cdp_filter))
        candidates == IF cdp_filter # None THEN cdp_indices ELSE Range(Len(similarities))
        \* similarities[i] for an i past the last row
        no_row == \E k \in 1..Len(candidates) : candidates[k] > Len(similarities)
        scored == [k \in 1..Len(candidates) |->
                      [idx |-> candidates[k], score |-> similarities[candidates[k]]]]
        top_indices == Take(SortDesc(scored), top_k)
        kept == SelectSeq(top_indices, LAMBDA x : AboveFloor(x.score))
        \* self.chunks[idx] for an idx past the last chunk
        no_chunk == \E k \in 1..Len(kept) : kept[k].idx > Len(chunks)
    IN  IF no_row \/ no_chunk
        THEN [raised |-> "IndexError", results |-> <<>>]
        ELSE [raised |-> None,
              results |-> [k \in 1..Len(kept) |->
                              [idx |-> kept[k].idx, score |-> kept[k].score]
                                  @@ chunks[kept[k].idx]]]

SearchCall(query, top_k, cdp_filter) ==
    [query |-> query, top_k |-> top_k, cdp_filter |-> cdp_filter]

\* query: the message of the not_how_to outcome
NotHowToMessage == "I'm a CDP support agent. I can help answer how-to questions about Segment, mParticle, Lytics, and Zeotap. Please ask me questions like 'How do I set up a new source in Segment?' or 'How can I create a user profile in mParticle?'"

\* query: the no_results messages, with and without a product
NoResultsInMessage == "I couldn't find specific information about how to ... in ... . Could you try rephrasing your question or ask about a different feature?"
NoResultsMessage == "I couldn't find specific information about that. Could you specify which CDP (Segment, mParticle, Lytics, or Zeotap) you're asking about?"

\* compare_cdps: the three comparison_error messages
NeedCdpsMessage == "I can compare different CDPs, but I need to know which ones you want to compare. Please mention at least two CDPs from Segment, mParticle, Lytics, and Zeotap."
NeedFeatureMessage == "I can compare ..., but I need to know which feature you want to compare. For example, you can ask about audience creation, data integration, user profiles, etc."
NotEnoughMessage == "I couldn't find enough information to compare ... between ... . Could you try asking about a different feature?"

\* An exception leaves the call.
Raised(exception) == [type |-> "raised", exception |-> exception]

\* What a call did: the value it returned and the searches it made.
Did(returns, searched) == [returns |-> returns, searches |-> searched]

\* QueryEngine.query
query(text) ==
    IF ~is_how_to_question(text)
    THEN Did([type |-> "not_how_to", message |-> [text |-> NotHowToMessage]], <<>>)
    ELSE LET cdp_name == extract_cdp_name(text)
             found == search(text, QueryTopK, cdp_name)
             outcome ==
                 IF found.raised # None THEN Raised(found.raised)
                 ELSE IF found.results = <<>>
                 THEN IF cdp_name # None
                      THEN [type |-> "no_results",
                            message |-> [text |-> NoResultsInMessage,
                                         cdp |-> cdp_name]]
                      ELSE [type |-> "no_results",
                            message |-> [text |-> NoResultsMessage]]
                 ELSE [type |-> "results", cdp |-> cdp_name, query |-> text,
                       results |-> found.results]
         IN  Did(outcome, <<SearchCall(text, QueryTopK, cdp_name)>>)

\* compare_cdps: f"how to {feature} in {cdp}"
search_query(feature, cdp) ==
    <<"how", SP, "to", SP>> \o FeatureTokens(feature) \o <<SP, "in", SP, cdp>>

\* compare_cdps: results = self.query_engine.search(search_query, top_k=2, cdp_filter=cdp)
comparison_search(feature, cdp) == search(search_query(feature, cdp), CompareTopK, cdp)

\* The loop keeping the results of every product, empty or not
comparison_results_all(feature, cdps_to_compare) ==
    [cdp \in {cdps_to_compare[k] : k \in 1..Len(cdps_to_compare)} |->
        comparison_search(feature, cdp).results]

\* compare_cdps: the loop over cdps_to_compare, which keeps the results of a
\* product only if there are some.
comparison_results(feature, cdps_to_compare) ==
    LET answered == {cdp \in {cdps_to_compare[k] : k \in 1..Len(cdps_to_compare)} :
                        comparison_search(feature, cdp).results # <<>>}
    IN  [cdp \in answered |-> comparison_search(feature, cdp).results]

\* compare_cdps, from the loop on
compare_found(feature, cdps_to_compare) ==
    LET comparison_data == comparison_results(feature, cdps_to_compare)
        outcome ==
            IF \E k \in 1..Len(cdps_to_compare) :
                   comparison_search(feature, cdps_to_compare[k]).raised # None
            THEN Raised("IndexError")
            ELSE IF DOMAIN comparison_data = {}
            THEN [type |-> "comparison_error",
                  message |-> [text |-> NotEnoughMessage,
                               feature |-> feature, cdps |-> cdps_to_compare]]
            ELSE [type |-> "comparison", feature |-> feature,
                  cdps |-> cdps_to_compare, comparison_data |-> comparison_data]
    IN  Did(outcome,
            [k \in 1..Len(cdps_to_compare) |->
                SearchCall(search_query(feature, cdps_to_compare[k]), CompareTopK,
                           cdps_to_compare[k])])

\* The two checks in the other order
compare_extracted_feature_first(cdps_to_compare, feature) ==
    IF feature = None
    THEN Did([type |-> "comparison_error",
              message |-> [text |-> NeedFeatureMessage, cdps |-> cdps_to_compare]],
             <<>>)
    ELSE IF cdps_to_compare = NoList
    THEN Did([type |-> "comparison_error", message |-> [text |-> NeedCdpsMessage]], <<>>)
    ELSE compare_found(feature, cdps_to_compare)

\* compare_cdps, after the guard: the two checks of what was extracted
compare_extracted(cdps_to_compare, feature) ==
    IF cdps_to_compare = NoList
    THEN Did([type |-> "comparison_error",
              message |-> [text |-> NeedCdpsMessage]],
             <<>>)
    ELSE IF feature = None
    THEN Did([type |-> "comparison_error",
              message |-> [text |-> NeedFeatureMessage,
                           cdps |-> cdps_to_compare]],
             <<>>)
    ELSE compare_found(feature, cdps_to_compare)

\* CDPComparator.compare_cdps
compare_cdps(text) ==
    IF ~is_comparison_question(text) THEN Did([type |-> None], <<>>)
    ELSE compare_extracted(extract_cdps_to_compare(text), extract_feature_to_compare(text))

\* ----------------------------------------------------------------- inputs

\* The rows a matrix is made of: the weights of the vocabulary's terms.
Rows == {<<1, 1>>, <<2, 1>>}

\* scraper.py names the sources; these two have documents.
Sources == {"segment", "lytics"}

Chunks == [source : Sources]

SeqsUpTo(S, n) == UNION {[1..m -> S] : m \in 0..n}

\* The phrases a text opens with.
Openers == {
    <<>>,
    <<"how", SP, "to">>,
    <<SP, "how", SP, "to">>,
    <<"How", SP, "do", SP, "I">>,
    <<"what", "'", "s", SP, "the", SP, "best", SP, "way", SP, "to">>,
    <<"Compare", SP, "audience", SP, "creation", SP, "between">> }

\* The words that follow.
Words == {"Segments", "lytics", "vs", "audience"}

\* ' '.join(words)
RECURSIVE JoinWords(_)
JoinWords(words) ==
    IF words = <<>> THEN <<>>
    ELSE IF Len(words) = 1 THEN words
    ELSE <<words[1], SP>> \o JoinWords(Tail(words))

TextOf(opener, words) ==
    opener \o (IF opener # <<>> /\ words # <<>> THEN <<SP>> ELSE <<>>)
           \o JoinWords(words)

Texts == {TextOf(opener, words) : opener \in Openers, words \in SeqsUpTo(Words, MaxWords)}

\* The queries of a direct call of search: what counts is how often a term
\* of the vocabulary occurs.
SearchQueries ==
    {TextOf(opener, words) :
        opener \in {<<>>, <<"Compare", SP, "audience", SP, "creation", SP, "between">>},
        words \in SeqsUpTo({"audience"}, MaxWords)}

Filters == {None, "segment", "Lytics", "zeotap"}

\* ----------------------------------------------------------------- actions

FileNames == {"vectorizer.pkl", "chunk_vectors.npz", "chunks_metadata.json"}

\* DocumentIndexer.build_index and save_index: fit_transform gives one row
\* for each chunk, and the three files are written.
save_index(indexed) ==
    [files |-> FileNames,
     chunk_vectors |-> [i \in 1..Len(indexed) |-> indexed[i].row],
     chunks_metadata |-> [i \in 1..Len(indexed) |-> indexed[i].chunk]]

NoCall == [op |-> None]
NoResult == [type |-> None]

\* The process starts over an index directory that save_index wrote.
Init ==
    /\ \E indexed \in SeqsUpTo([chunk : Chunks, row : Rows], MaxChunks) :
           index_dir = save_index(indexed)
    /\ vectorizer = None
    /\ chunk_vectors = <<>>
    /\ chunks = <<>>
    /\ pc = "start"
    /\ call = NoCall
    /\ result = NoResult
    /\ searches = <<>>

\* The process starts over any index directory: a file may be missing, and
\* the matrix and the chunk list are two files of any lengths.
InitAnyDir ==
    /\ \E files \in SUBSET FileNames,
          rows \in SeqsUpTo(Rows, MaxChunks),
          metadata \in SeqsUpTo(Chunks, MaxChunks) :
           /\ "chunk_vectors.npz" \notin files => rows = <<>>
           /\ "chunks_metadata.json" \notin files => metadata = <<>>
           /\ index_dir = [files |-> files, chunk_vectors |-> rows,
                           chunks_metadata |-> metadata]
    /\ vectorizer = None
    /\ chunk_vectors = <<>>
    /\ chunks = <<>>
    /\ pc = "start"
    /\ call = NoCall
    /\ result = NoResult
    /\ searches = <<>>

\* QueryEngine.__init__ and load_index, at the import of app.py.  open() and
\* np.load raise for a missing file, and the process ends.
LoadIndex ==
    /\ pc = "start"
    /\ IF FileNames \subseteq index_dir.files
       THEN /\ vectorizer' = "TfidfVectorizer"
            /\ chunk_vectors' = index_dir.chunk_vectors
            /\ chunks' = index_dir.chunks_metadata
            /\ pc' = "ready"
       ELSE /\ pc' = "fatal"
            /\ UNCHANGED engine
    /\ UNCHANGED <<index_dir, call, result, searches>>

\* A call of QueryEngine.search
Search ==
    /\ pc = "ready"
    /\ \E text \in SearchQueries, top_k \in 0..MaxTopK, cdp_filter \in Filters :
           /\ call' = [op |-> "search", query |-> text, top_k |-> top_k,
                       cdp_filter |-> cdp_filter]
           /\ result' = search(text, top_k, cdp_filter)
           /\ searches' = <<SearchCall(text, top_k, cdp_filter)>>
    /\ pc' = "returned"
    /\ UNCHANGED <<index_dir, engine>>

\* A call with one argument, and what it did.
Calls(op, text, did) ==
    /\ call' = [op |-> op, query |-> text]
    /\ result' = did.returns
    /\ searches' = did.searches

\* A call of QueryEngine.query
Query ==
    /\ pc = "ready"
    /\ \E text \in Texts : Calls("query", text, query(text))
    /\ pc' = "returned"
    /\ UNCHANGED <<index_dir, engine>>

\* A call of CDPComparator.compare_cdps
CompareCdps ==
    /\ pc = "ready"
    /\ \E text \in Texts : Calls("compare_cdps", text, compare_cdps(text))
    /\ pc' = "returned"
    /\ UNCHANGED <<index_dir, engine>>

\* The caller has the result; the engine waits for the next call.
Return ==
    /\ pc = "returned"
    /\ pc' = "ready"
    /\ call' = NoCall
    /\ result' = NoResult
    /\ searches' = <<>>
    /\ UNCHANGED <<index_dir, engine>>

\* The retriever: search and query over a loaded index.
Next == LoadIndex \/ Search \/ Query \/ Return

Spec == Init /\ [][Next]_vars

\* The comparator over the same engine.
NextCompare == LoadIndex \/ CompareCdps \/ Return

SpecCompare == Init /\ [][NextCompare]_vars

NextAnyDir == LoadIndex \/ Search \/ Return

SpecAnyDir == InitAnyDir /\ [][NextAnyDir]_vars

\* ------------------------------------------------------ the chat endpoint

\* The record of a chunk as create_chunks writes it, with the document's url.
Documented(chunk) == chunk @@ [url |-> "https://docs"]

\* str.capitalize() on the names the formatter puts in a response.
Capitalize ==
    [segment |-> "Segment", mparticle |-> "Mparticle", lytics |-> "Lytics",
     zeotap |-> "Zeotap", the_CDP |-> "The cdp"]

\* The formatter returns a response.
Responds(response) == [type |-> "response", response |-> response]

\* ResponseGenerator.format_how_to_response.  best_result['url'] raises
\* KeyError for a chunk with no url.
format_how_to_response(query_result) ==
    IF query_result.type \in {"not_how_to", "no_results"}
    THEN Responds(query_result.message)
    ELSE LET cdp_name == IF query_result.cdp # None THEN query_result.cdp ELSE "the_CDP"
             best_result == query_result.results[1]
         IN  IF "url" \notin DOMAIN best_result
             THEN Raised("KeyError")
             ELSE Responds([text |-> "Here's how to ... in ...:",
                            cdp |-> Capitalize[cdp_name],
                            more |-> "For more details, you can check the documentation at:",
                            url |-> best_result.url])

\* format_comparison_response: the part of the response about one product.
comparison_section(cdp, data) ==
    IF cdp \in DOMAIN data
    THEN [cdp |-> Capitalize[cdp], more |-> "More details:", url |-> data[cdp][1].url]
    ELSE [cdp |-> Capitalize[cdp],
          more |-> "I couldn't find specific information about ... for this CDP."]

\* ResponseGenerator.format_comparison_response.  The loop over cdps reads
\* best_result['url'] for every product that has data.
format_comparison_response(comparison_result) ==
    IF comparison_result.type = "comparison_error"
    THEN Responds(comparison_result.message)
    ELSE LET cdps == comparison_result.cdps
             data == comparison_result.comparison_data
         IN  IF \E cdp \in DOMAIN data : "url" \notin DOMAIN data[cdp][1]
             THEN Raised("KeyError")
             ELSE Responds([text |-> "Here's a comparison of ... between ...:",
                            feature |-> comparison_result.feature,
                            sections |-> [k \in 1..Len(cdps) |->
                                             comparison_section(cdps[k], data)]])

\* generate_response: the fallback response
FallbackMessage == "I'm sorry, I couldn't process your question. Please try asking a how-to question about Segment, mParticle, Lytics, or Zeotap."

\* ResponseGenerator.generate_response.  None is [type |-> None], which has
\* none of the five types.
generate_response(raw_result) ==
    IF raw_result.type \in {"not_how_to", "no_results", "results"}
    THEN format_how_to_response(raw_result)
    ELSE IF raw_result.type \in {"comparison", "comparison_error"}
    THEN format_comparison_response(raw_result)
    ELSE Responds([text |-> FallbackMessage])

\* chat with the how-to test ahead of the comparison test
route_how_to_first(user_message) ==
    IF is_how_to_question(user_message) THEN "query"
    ELSE IF is_comparison_question(user_message) THEN "compare_cdps" ELSE "query"

\* chat: the handler the message goes to
route(user_message) ==
    IF is_comparison_question(user_message) THEN "compare_cdps" ELSE "query"

\* chat, once the handler has returned or raised: an exception that leaves
\* the view is a 500.
chat_respond(did, formatted) ==
    IF did.returns.type = "raised"
    THEN [status |-> 500, exception |-> did.returns.exception]
    ELSE IF formatted.type = "raised"
    THEN [status |-> 500, exception |-> formatted.exception]
    ELSE [status |-> 200, response |-> formatted.response, raw_result |-> did.returns]

\* chat, for a message that is not empty.  made lists the calls chat makes,
\* and handed is what generate_response is given.
chat_routed(user_message, handler, did) ==
    /\ call' = [op |-> "chat", message |-> user_message,
                made |-> <<"is_comparison_question", handler>>
                             \o (IF did.returns.type = "raised"
                                 THEN <<>> ELSE <<"generate_response">>),
                handed |-> IF did.returns.type = "raised" THEN <<>> ELSE <<did.returns>>]
    /\ result' = chat_respond(did, generate_response(did.returns))
    /\ searches' = did.searches

\* request.json: a body with a message, and one without.
Bodies == {[message |-> text] : text \in Texts} \union {[session |-> "1"]}

\* data.get('message', '')
MessageOf(data) == IF "message" \in DOMAIN data THEN data.message ELSE <<>>

\* POST /api/chat
chat(user_message) ==
    IF user_message = <<>>
    THEN /\ call' = [op |-> "chat", message |-> user_message, made |-> <<>>,
                     handed |-> <<>>]
         /\ result' = [status |-> 400, error |-> "No message provided"]
         /\ searches' = <<>>
    ELSE chat_routed(user_message, route(user_message),
                     IF route(user_message) = "compare_cdps"
                     THEN compare_cdps(user_message) ELSE query(user_message))

\* A request to the chat endpoint
Chat ==
    /\ pc = "ready"
    /\ \E data \in Bodies : chat(MessageOf(data))
    /\ pc' = "returned"
    /\ UNCHANGED <<index_dir, engine>>

\* The rows of the chunks the endpoint answers from.
ChatRows == {<<2, 1>>}

\* The chunk records of an index directory: as create_chunks writes them, or
\* with no url.
ChatChunks == Chunks \union {Documented(chunk) : chunk \in Chunks}

\* The process starts over an index directory whose chunk records may lack
\* the url.
InitChat ==
    /\ \E indexed \in SeqsUpTo([chunk : ChatChunks, row : ChatRows], MaxChunks) :
           index_dir = save_index(indexed)
    /\ vectorizer = None
    /\ chunk_vectors = <<>>
    /\ chunks = <<>>
    /\ pc = "start"
    /\ call = NoCall
    /\ result = NoResult
    /\ searches = <<>>

NextChat == LoadIndex \/ Chat \/ Return

SpecChat == InitChat /\ [][NextChat]_vars

\* ------------------------------------------- calls that run concurrently

\* The threads of the server, each handling one call at a time.  In
\* SpecShared pc, call, result and searches hold one value for each thread;
\* the engine is the one object they all read.
Threads == {"t1", "t2"}

\* chunk = self.chunks[idx]; chunk['score'] = float(score): no copy, so the
\* chunk of the list is the one annotated
annotate_in_place(shared, idx, score) ==
    [chunks |-> [shared EXCEPT ![idx] = [score |-> score] @@ @],
     chunk |-> [idx |-> idx, score |-> score] @@ shared[idx]]

\* search: chunk = self.chunks[idx].copy(); chunk['score'] = float(score).
\* The value is the chunk list after the two statements, and the chunk that
\* goes to results.
annotate_copy(shared, idx, score) ==
    [chunks |-> shared,
     chunk |-> [idx |-> idx, score |-> score] @@ shared[idx]]

\* The calls of search that a call makes, one after the other.
SearchesOf(c) ==
    CASE c.op = "search" -> <<SearchCall(c.query, c.top_k, c.cdp_filter)>>
      [] c.op = "query" -> query(c.query).searches
      [] c.op = "compare_cdps" -> compare_cdps(c.query).searches

\* The calls the threads make.
SharedCalls ==
    {[op |-> "search", query |-> <<"audience">>, top_k |-> top_k, cdp_filter |-> cdp_filter] :
        top_k \in 1..MaxTopK, cdp_filter \in {None, "segment"}}
    \union {[op |-> "query", query |-> text] :
               text \in {<<"how", SP, "to", SP, "audience", SP, "audience", SP, "Segments">>,
                         <<"vs">>}}
    \union {[op |-> "compare_cdps", query |-> text] :
               text \in {<<"Compare", SP, "audience", SP, "creation", SP, "between", SP,
                           "Segments", SP, "lytics">>}}

Idle == [kept |-> <<>>, results |-> <<>>, found |-> <<>>]

\* A thread takes a call.
Begin(t) ==
    /\ pc[t] = "idle"
    /\ \E c \in SharedCalls :
           /\ call' = [call EXCEPT ![t] = c]
           /\ searches' = [searches EXCEPT ![t] = SearchesOf(c)]
           /\ pc' = [pc EXCEPT ![t] = IF SearchesOf(c) = <<>> THEN "returned" ELSE "called"]
    /\ result' = [result EXCEPT ![t] = Idle]
    /\ UNCHANGED <<index_dir, engine>>

\* search, up to its loop: the thread ranks the chunks as they are now, and
\* has the pairs of top_indices that pass `if score > 0.1` still to go
\* through.
Rank(t) ==
    /\ pc[t] = "called"
    /\ LET s == searches[t][1]
           ranked == search(s.query, s.top_k, s.cdp_filter).results
       IN  result' = [result EXCEPT ![t].kept =
                          [k \in 1..Len(ranked) |->
                              [idx |-> ranked[k].idx, score |-> ranked[k].score]],
                                    ![t].results = <<>>]
    /\ pc' = [pc EXCEPT ![t] = "loop"]
    /\ UNCHANGED <<index_dir, engine, call, searches>>

\* One pass of the loop of search for a pair whose score is above 0.1.
Annotate(t) ==
    /\ pc[t] = "loop"
    /\ result[t].kept # <<>>
    /\ LET pair == result[t].kept[1]
           after == annotate_copy(chunks, pair.idx, pair.score)
       IN  /\ chunks' = after.chunks
           /\ result' = [result EXCEPT ![t].kept = Tail(@),
                                       ![t].results = Append(@, after.chunk)]
    /\ UNCHANGED <<index_dir, vectorizer, chunk_vectors, pc, call, searches>>

\* search returns its results, and the call goes on to its next search or
\* returns.
SearchReturns(t) ==
    /\ pc[t] = "loop"
    /\ result[t].kept = <<>>
    /\ result' = [result EXCEPT ![t].found = Append(@, result[t].results),
                                ![t].results = <<>>]
    /\ searches' = [searches EXCEPT ![t] = Tail(@)]
    /\ pc' = [pc EXCEPT ![t] = IF Tail(searches[t]) = <<>> THEN "returned" ELSE "called"]
    /\ UNCHANGED <<index_dir, engine, call>>

\* The caller has what the call found; the thread is free again.
Done(t) ==
    /\ pc[t] = "returned"
    /\ pc' = [pc EXCEPT ![t] = "idle"]
    /\ call' = [call EXCEPT ![t] = NoCall]
    /\ result' = [result EXCEPT ![t] = Idle]
    /\ UNCHANGED <<index_dir, engine, searches>>

\* The rows of the chunks the threads search.
SharedRows == {<<2, 1>>}

\* The engine has loaded an index that save_index wrote, and every thread
\* is idle.
InitShared ==
    /\ \E indexed \in SeqsUpTo([chunk : Chunks, row : SharedRows], MaxChunks) :
           /\ index_dir = save_index(indexed)
           /\ chunk_vectors = save_index(indexed).chunk_vectors
           /\ chunks = save_index(indexed).chunks_metadata
    /\ vectorizer = "TfidfVectorizer"
    /\ pc = [t \in Threads |-> "idle"]
    /\ call = [t \in Threads |-> NoCall]
    /\ result = [t \in Threads |-> Idle]
    /\ searches = [t \in Threads |-> <<>>]

NextShared ==
    \E t \in Threads :
        \/ Begin(t)
        \/ Rank(t)
        \/ Annotate(t)
        \/ SearchReturns(t)
        \/ Done(t)

SpecShared == InitShared /\ [][NextShared]_vars

\* ---------------------------------------------- the classifier on its own

\* The texts the classifier's functions are applied to.
ClassifyOpeners ==
    Openers \union {
        <<"how", SP, "should", SP, "you">>,
        <<"what", SP, "is", SP, "the", SP, "process", SP, "for">>,
        <<"how", SP, "do", SP, "i", SP, "create">>,
        <<"difference", SP, "between">> }

ClassifyWords == Words \union {"zeotap", "versus"}

ClassifyTexts ==
    {TextOf(opener, words) :
        opener \in ClassifyOpeners, words \in SeqsUpTo(ClassifyWords, MaxWords)}

ClassifierOps == {"is_how_to_question", "extract_cdp_name", "is_comparison_question",
                  "extract_cdps_to_compare", "extract_feature_to_compare"}

\* One function of the classifier is about to be applied to one text.
InitClassify ==
    /\ index_dir = [files |-> {}, chunk_vectors |-> <<>>, chunks_metadata |-> <<>>]
    /\ vectorizer = None
    /\ chunk_vectors = <<>>
    /\ chunks = <<>>
    /\ pc = "called"
    /\ \E op \in ClassifierOps, text \in ClassifyTexts : call = [op |-> op, query |-> text]
    /\ result = NoResult
    /\ searches = <<>>

Returns(value) ==
    /\ result' = [value |-> value]
    /\ pc' = "returned"
    /\ UNCHANGED <<index_dir, engine, call, searches>>

IsHowToQuestion ==
    /\ pc = "called"
    /\ call.op = "is_how_to_question"
    /\ Returns(is_how_to_question(call.query))

ExtractCdpName ==
    /\ pc = "called"
    /\ call.op = "extract_cdp_name"
    /\ Returns(extract_cdp_name(call.query))

IsComparisonQuestion ==
    /\ pc = "called"
    /\ call.op = "is_comparison_question"
    /\ Returns(is_comparison_question(call.query))

ExtractCdpsToCompare ==
    /\ pc = "called"
    /\ call.op = "extract_cdps_to_compare"
    /\ Returns(extract_cdps_to_compare(call.query))

ExtractFeatureToCompare ==
    /\ pc = "called"
    /\ call.op = "extract_feature_to_compare"
    /\ Returns(extract_feature_to_compare(call.query))

NextClassify ==
    \/ IsHowToQuestion
    \/ ExtractCdpName
    \/ IsComparisonQuestion
    \/ ExtractCdpsToCompare
    \/ ExtractFeatureToCompare

SpecClassify == InitClassify /\ [][NextClassify]_vars

\* ----------------------------------------------------------------- claims

SearchReturned == pc = "returned" /\ call.op = "search" /\ result.raised = None
QueryReturned == pc = "returned" /\ call.op = "query"
CompareReturned == pc = "returned" /\ call.op = "compare_cdps"

\* The similarity of chunk i to a query text.
ScoreOf(i, text) == Dot(chunk_vectors[i], transform(preprocess_query(text)))

\* The chunks of a product that score above 0.1 against a query text.
Relevant(cdp, text) ==
    LET query_vector == transform(preprocess_query(text)) IN
    {i \in 1..Len(chunks) :
        Lower(chunks[i].source) = cdp /\ Dot(chunk_vectors[i], query_vector) > ScoreFloor}

\* The known products that occur in a text, whatever the case.
NamedIn(lower) == {cdp \in {"segment", "mparticle", "lytics", "zeotap"} : InText(cdp, lower)}

Named(text) == NamedIn(LowerText(text))

\* The text matches one of the how-to patterns, anchored at its start.
MatchesHowTo(text) ==
    \E p \in 1..Len(how_to_patterns) : MatchStart(how_to_patterns[p], LowerText(text))

SortedByScore(results) ==
    \A j, k \in 1..Len(results) : j < k => results[j].score >= results[k].score

\* C1: search returns at most top_k results, each with a score strictly
\* above 0.1, for every query, top_k >= 0 and filter.
C1_AtMostTopKAboveFloor ==
    SearchReturned =>
        /\ Len(result.results) <= call.top_k
        /\ \A k \in 1..Len(result.results) : result.results[k].score > ScoreFloor

\* A search of three chunks for two: the second best scores exactly 0.1 and
\* is dropped, the third is cut off.
C1_Witness ==
    /\ SearchReturned
    /\ call.top_k = 2
    /\ call.cdp_filter = None
    /\ Len(chunks) = 3
    /\ Len(result.results) = 1
    /\ \E i \in 1..Len(chunks) : ScoreOf(i, call.query) = ScoreFloor

\* C2: the results of search are in non-increasing score order, and results
\* of equal score are in the order of their positions in the chunk list.
C2_SortedStable ==
    SearchReturned =>
        \A j, k \in 1..Len(result.results) :
            j < k =>
                /\ result.results[j].score >= result.results[k].score
                /\ result.results[j].score = result.results[k].score
                       => result.results[j].idx < result.results[k].idx

\* A filtered search returns the first and the third chunk, which tie; the
\* chunk between them is of another product.
C2_Witness ==
    /\ SearchReturned
    /\ call.cdp_filter # None
    /\ Len(result.results) = 2
    /\ result.results[1].score = result.results[2].score
    /\ result.results[1].idx = 1
    /\ result.results[2].idx = 3

\* C3: with a product filter, search returns only chunks whose source is the
\* filter, compared without case.
C3_OnlyFilteredSource ==
    (SearchReturned /\ call.cdp_filter # None) =>
        \A k \in 1..Len(result.results) :
            Lower(result.results[k].source) = Lower(call.cdp_filter)

\* A search filtered by "Lytics" returns a lytics chunk though a segment
\* chunk scores higher.
C3_Witness ==
    /\ SearchReturned
    /\ call.cdp_filter = "Lytics"
    /\ result.results # <<>>
    /\ \E i \in 1..Len(chunks) :
           /\ chunks[i].source = "segment"
           /\ ScoreOf(i, call.query) > result.results[1].score

C5_ComparisonData ==
    (CompareReturned /\ result.type = "comparison") =>
        LET requested == {result.cdps[k] : k \in 1..Len(result.cdps)}
            data == result.comparison_data
        IN  /\ requested = Named(call.query)
            /\ Len(result.cdps) = Cardinality(requested)
            /\ DOMAIN data \subseteq requested
            /\ \A cdp \in DOMAIN data :
                   /\ data[cdp] # <<>>
                   /\ Len(data[cdp]) <= 2
                   /\ \A k \in 1..Len(data[cdp]) : Lower(data[cdp][k].source) = cdp
            /\ \A cdp \in requested :
                   Relevant(cdp, search_query(result.feature, cdp)) = {} => cdp \notin DOMAIN data

\* A comparison of segment and lytics: three segment chunks score above 0.1
\* and two are kept, and lytics, with none, is in cdps and not in the data.
C5_Witness ==
    /\ CompareReturned
    /\ result.type = "comparison"
    /\ result.cdps = <<"segment", "lytics">>
    /\ DOMAIN result.comparison_data = {"segment"}
    /\ Len(result.comparison_data["segment"]) = 2
    /\ Cardinality(Relevant("segment", search_query(result.feature, "segment"))) = 3

\* The product list a compare_cdps outcome carries, if it carries one.
CarriedCdps ==
    IF result.type = "comparison" THEN result.cdps
    ELSE IF result.type = "comparison_error" /\ "cdps" \in DOMAIN result.message
    THEN result.message.cdps
    ELSE NoList

\* C6, as claimed: the product list of a comparison text that names two or
\* more products is in the order of their first appearance in the text.
C6_OrderOfAppearance ==
    (CompareReturned /\ Cardinality(Named(call.query)) >= 2
        /\ is_comparison_question(call.query)) =>
        CarriedCdps = AppearanceOrder(call.query)

\* The position of a product in the fixed list.
ListPosition(cdp) ==
    CASE cdp = "segment" -> 1 [] cdp = "mparticle" -> 2
      [] cdp = "lytics" -> 3 [] cdp = "zeotap" -> 4

\* C6, amended: the product list of a comparison text that names two or
\* more products is in the order of the fixed list segment, mparticle,
\* lytics, zeotap, whatever the order of appearance in the text.
C6_OrderOfFixedList ==
    (CompareReturned /\ Cardinality(Named(call.query)) >= 2
        /\ is_comparison_question(call.query)) =>
        /\ CarriedCdps # NoList
        /\ \A j, k \in 1..Len(CarriedCdps) :
               j < k => ListPosition(CarriedCdps[j]) < ListPosition(CarriedCdps[k])

\* A comparison of a text that names lytics before segment.
C6_Witness ==
    /\ CompareReturned
    /\ result.type = "comparison"
    /\ AppearanceOrder(call.query) = <<"lytics", "segment">>
    /\ result.cdps = <<"segment", "lytics">>

\* C7: extract_cdps_to_compare returns None when fewer than two of the four
\* products occur in the text, and otherwise every product that occurs,
\* once each, in the order of the fixed list.
C7_ExtractCdpsToCompare ==
    (pc = "returned" /\ call.op = "extract_cdps_to_compare") =>
        IF Cardinality(Named(call.query)) < 2
        THEN result.value = NoList
        ELSE /\ {result.value[k] : k \in 1..Len(result.value)} = Named(call.query)
             /\ Len(result.value) = Cardinality(Named(call.query))
             /\ \A j, k \in 1..Len(result.value) :
                    j < k => ListPosition(result.value[j]) < ListPosition(result.value[k])

\* A comparison question that names one product only.
C7_Witness ==
    /\ pc = "returned"
    /\ call.op = "extract_cdps_to_compare"
    /\ is_comparison_question(call.query)
    /\ Cardinality(Named(call.query)) = 1
    /\ result.value = NoList

C9_NotHowTo ==
    (QueryReturned /\ ~MatchesHowTo(call.query)) =>
        /\ result = [type |-> "not_how_to", message |-> [text |-> NotHowToMessage]]
        /\ searches = <<>>

\* A text with a comparison marker and a product that is no how-to question.
C9_Witness ==
    /\ QueryReturned
    /\ ~MatchesHowTo(call.query)
    /\ is_comparison_question(call.query)
    /\ Named(call.query) # {}
    /\ result.type = "not_how_to"

\* C10: when the matrix in the index directory has a number of rows other
\* than the number of chunk records, loading is fatal: no engine is ever
\* ready over a matrix and a chunk list of different lengths.
C10_MisalignedIndexIsFatal ==
    /\ (pc # "start" /\ Len(index_dir.chunk_vectors) # Len(index_dir.chunks_metadata))
           => pc = "fatal"
    /\ pc \in {"ready", "returned"} => Len(chunk_vectors) = Len(chunks)

ChatReturned == pc = "returned" /\ call.op = "chat"

\* The outcome generate_response was given, if it was called.
Handed == call.handed[1]

\* The best-scoring chunk of some product of a results or comparison outcome
\* has no url.
BestLacksUrl(outcome) ==
    \/ outcome.type = "results" /\ "url" \notin DOMAIN outcome.results[1]
    \/ /\ outcome.type = "comparison"
       /\ \E cdp \in DOMAIN outcome.comparison_data :
              "url" \notin DOMAIN outcome.comparison_data[cdp][1]

\* C11: when the best-scoring chunk of a results or comparison outcome has
\* no url, the formatter still returns a response, and the request is
\* answered with it.
C11_MissingUrlTolerated ==
    (ChatReturned /\ call.handed # <<>> /\ BestLacksUrl(Handed)) =>
        result.status = 200

\* The text without its leading whitespace.
RECURSIVE LeftTrimmed(_)
LeftTrimmed(text) ==
    IF text # <<>> /\ text[1] \in Whitespace THEN LeftTrimmed(Tail(text)) ELSE text

\* C12: is_how_to_question matches the trimmed text: a text made of leading
\* whitespace and a text that is_how_to_question accepts is accepted too.
C12_LeadingWhitespaceAccepted ==
    (/\ pc = "returned"
     /\ call.op = "is_how_to_question"
     /\ call.query # LeftTrimmed(call.query)
     /\ is_how_to_question(LeftTrimmed(call.query))) =>
        result.value = TRUE

\* C13: after loading, whatever calls of search, query and compare_cdps run,
\* one after the other or at the same time, the chunk list, the matrix and
\* the vectorizer are what was loaded: no chunk of the list has a score, and
\* the list has one chunk for each row of the matrix.
C13_EngineNeverWritten ==
    /\ chunks = index_dir.chunks_metadata
    /\ chunk_vectors = index_dir.chunk_vectors
    /\ vectorizer = "TfidfVectorizer"
    /\ \A i \in 1..Len(chunks) : "score" \notin DOMAIN chunks[i]
    /\ Len(chunks) = Len(chunk_vectors)

\* Two threads are in the loop of search at the same time, and each has put
\* its own score on its own copy of the same chunk.
C13_Witness ==
    /\ pc["t1"] = "loop"
    /\ pc["t2"] = "loop"
    /\ result["t1"].results # <<>>
    /\ result["t2"].results # <<>>
    /\ result["t1"].results[1].idx = result["t2"].results[1].idx
    /\ result["t1"].results[1].score # result["t2"].results[1].score
    /\ call["t1"].op = "query"
    /\ call["t2"].op = "compare_cdps"

\* The text has one of the comparison markers.
HasMarker(text) == MatchesComparison(LowerText(text))

\* C14: a request with a message goes to compare_cdps when the message has a
\* comparison marker, how-to question or not, and to query otherwise, and to
\* nothing else; generate_response is given an outcome of one of the five
\* types, of the handler's kind, and the fallback response is never the
\* answer.  A request with no message or an empty one is answered 400, and
\* no classifier, search or handler is called for it.
C14_OneHandler ==
    ChatReturned =>
        IF call.message = <<>>
        THEN /\ result = [status |-> 400, error |-> "No message provided"]
             /\ call.made = <<>>
             /\ searches = <<>>
        ELSE /\ call.made = <<"is_comparison_question",
                              IF HasMarker(call.message) THEN "compare_cdps" ELSE "query",
                              "generate_response">>
             /\ call.handed # <<>>
             /\ Handed.type \in
                    IF HasMarker(call.message)
                    THEN {"comparison", "comparison_error"}
                    ELSE {"not_how_to", "no_results", "results"}
             /\ result.status = 200 => result.response # [text |-> FallbackMessage]

\* A how-to question with a comparison marker goes to compare_cdps, which
\* answers that it needs two products.
C14_Witness ==
    /\ ChatReturned
    /\ is_how_to_question(call.message)
    /\ HasMarker(call.message)
    /\ call.made[2] = "compare_cdps"
    /\ Handed.type = "comparison_error"
    /\ result.status = 200
    /\ result.response.text = NeedCdpsMessage

\* The positions of the chunks a filter lets through, in corpus order.
Candidates(cdp_filter) ==
    SelectSeq(Range(Len(chunks)),
              LAMBDA i : cdp_filter = None \/ Lower(chunks[i].source) = Lower(cdp_filter))

\* The candidates that score above 0.1 against a text, by descending score
\* and, within a score, in corpus order.
FloorFirst(text, cdp_filter) ==
    LET above == SelectSeq(Candidates(cdp_filter), LAMBDA i : ScoreOf(i, text) > ScoreFloor)
    IN  SortDesc([k \in 1..Len(above) |-> [idx |-> above[k], score |-> ScoreOf(above[k], text)]])

\* The position and the score of each result.
Ranked(results) ==
    [k \in 1..Len(results) |-> [idx |-> results[k].idx, score |-> results[k].score]]

\* C15: search, which cuts the ranking to top_k and then drops the scores
\* that are not above 0.1, returns what dropping first and cutting afterwards
\* gives: the first min(top_k, n) of the n candidates above 0.1, by
\* descending score and corpus order.
C15_FloorThenCut ==
    SearchReturned =>
        LET expected == FloorFirst(call.query, call.cdp_filter) IN
        /\ Len(result.results) =
               (IF call.top_k < Len(expected) THEN call.top_k ELSE Len(expected))
        /\ Ranked(result.results) = Take(expected, call.top_k)

\* The first chunk of three scores exactly 0.1 and the other two above: a
\* search for two returns the other two.
C15_Witness ==
    /\ SearchReturned
    /\ call.top_k = 2
    /\ Len(chunks) = 3
    /\ ScoreOf(1, call.query) = ScoreFloor
    /\ Len(result.results) = 2
    /\ result.results[1].idx = 2
    /\ result.results[2].idx = 3

====
